---- MODULE Spec2Model ----
(***************************************************************************)
(* Debounce / batch coordinator of the message gateway (src/api/main.py). *)
(*                                                                         *)
(* The gateway runs on one asyncio event loop.  A coroutine runs without   *)
(* interruption until it reaches an await that really suspends, so every   *)
(* action below is the code between two suspension points:                 *)
(*   receive_messages        the whole POST /messages handler (no await)  *)
(*   delayed_process         the wake-up of a flush task after its sleep  *)
(*   get_cognee_context_done the code after the await of line 209         *)
(*   save_to_cognee_done     the code after the await of line 232         *)
(*   send_webhook_done       the code after the await of line 236         *)
(*   get_agent, create_agent, update_agent, delete_agent                   *)
(*                           the handlers of /agents (no await)            *)
(*   post_messages           POST /messages behind its API-key dependency  *)
(*   lifespan_shutdown       the end of the application                    *)
(*   Tick                    the passage of time                           *)
(* Task.cancel() makes asyncio raise CancelledError at the await the task  *)
(* is suspended on.  The program requires Python 3.9 (src/start.py:46),    *)
(* where CancelledError is a BaseException: none of the `except Exception` *)
(* handlers of the dispatch path catches it, so a cancelled task ends at   *)
(* its current await whether it is still sleeping or already dispatching.  *)
(***************************************************************************)
EXTENDS FiniteSets, Integers, Sequences, TLC

(***************************************************************************)
(* Bounds of the model.                                                    *)
(***************************************************************************)
MaxMsgs == 3
MaxReqLen == 2
MaxTicks == 3
MaxAgentOps == 1
\* SpecFaults: no request with messages once this many messages are received
MaxFaultMsgs == 2
\* SpecApi: the registry changes and the messages received
MaxApiOps == 3
MaxApiMsgs == 1
\* SpecFlush: the messages received before the registry changes, and the changes
MaxFlushMsgs == 2
MaxFlushOps == 2

\* debounce is given in milliseconds and converted to seconds (main.py:366)
MsPerSecond == 1000
\* the clock of the model advances in half seconds
TickMs == MsPerSecond \div 2
MaxTime == MaxTicks * TickMs

(***************************************************************************)
(* Values.  An Optional[str] is None or Some(s).                           *)
(***************************************************************************)
None == <<>>
Some(s) == <<s>>
\* Python truthiness of an Optional[str]: None and "" are falsy
Truthy(o) == o # None /\ o[1] # ""

AgentIds == {"a", "a_b"}
WebhookUrls == {"", "http://hook"}

\* MessageInput (main.py:56-64), the fields the coordinator reads, and
\* message_id, which it stores and never reads
Msg(agent, user, session, debounce, message_id) ==
    [agent_id |-> agent, user_id |-> user, session_id |-> session,
     debounce |-> debounce, message_id |-> message_id]

\* The messages a request can carry: two that differ in their debounce only
\* and have the same message id, one of another agent and user whose
\* identifiers join to the same string, and one of another user without a
\* message id.
MessageInput ==
    { Msg("a", "b_c", None, 0, Some("m1")),
      Msg("a", "b_c", None, MsPerSecond, Some("m1")),
      Msg("a_b", "c", None, MsPerSecond, Some("m2")),
      Msg("a", "c", None, MsPerSecond, None) }

\* the id of the default agent created at start-up (main.py:104)
DefaultAgentId == "a"

\* the API key of the deployment (main.py:38) and the X-API-Key headers a
\* request can have: none, an empty one, a wrong one and the key
API_KEY == "151fb361-f295-4a4f-84c9-ec1f42599a67"
ApiKeys == {None, Some(""), Some("wrong"), Some(API_KEY)}

\* The fields of AgentConfig (main.py:66-75) besides its id, with the defaults
\* of the model (Plain) and with every field set otherwise (Hooked).
\* temperature is in tenths.
Plain ==
    [name |-> "plain", description |-> "", instructions |-> "be brief",
     model |-> "openai/gpt-4o-mini", temperature |-> 7, max_tokens |-> 1000,
     skills |-> <<>>, webhook_url |-> ""]
Hooked ==
    [name |-> "hooked", description |-> "calls back", instructions |-> "be kind",
     model |-> "openai/gpt-4o", temperature |-> 2, max_tokens |-> 500,
     skills |-> <<"search">>, webhook_url |-> "http://hook"]
AgentBodies == {Plain, Hooked}

\* the fields PUT /agents/{id} writes besides updated_at (main.py:437-444)
Configurable == DOMAIN Plain

\* an AgentConfig: an Optional id and the other fields
AgentConfig(id, body) ==
    [f \in {"id"} \cup DOMAIN body |-> IF f = "id" THEN id ELSE body[f]]

VARIABLES
    agents_storage,    \* agent id -> agent configuration (main.py:91)
    debounce_storage,  \* debounce key -> [messages, task] (main.py:94)
    msgs,              \* the MessageInput objects received so far, by identity
    tasks,             \* the flush tasks created so far (asyncio tasks)
    now,               \* the clock, in milliseconds
    agentOps,          \* number of registry changes made so far
    response,          \* the response to the last POST /messages, None before
    x_api_key,         \* the X-API-Key header of the last POST /messages
    agent_response,    \* the last request to /agents with its response
    created,           \* history: agent id -> the AgentConfig submitted by the
                       \* POST /agents that returned the id, until a PUT or
                       \* DELETE of the id succeeds
    shutdown           \* None while the application serves; after its
                       \* shutdown, the pending messages its log has named

vars == <<agents_storage, debounce_storage, msgs, tasks, now, agentOps, response,
          x_api_key, agent_response, created, shutdown>>

\* the application has started and has not shut down
serving == shutdown = None

(***************************************************************************)
(* Sequence helpers.                                                       *)
(***************************************************************************)
Range(s) == {s[i] : i \in 1..Len(s)}

RECURSIVE Distinct(_)
\* the distinct elements of s, in order of first appearance (dict key order)
Distinct(s) ==
    IF s = <<>> THEN <<>>
    ELSE LET r == Distinct(SubSeq(s, 1, Len(s) - 1))
         IN IF s[Len(s)] \in Range(r) THEN r ELSE Append(r, s[Len(s)])

(***************************************************************************)
(* The debounce key (main.py:344).                                         *)
(***************************************************************************)
\* debounce_key with the number of groups in the store mixed into the key
debounce_key_of_store(m) ==
    m.agent_id \o "_" \o m.user_id \o "_" \o
        (IF Truthy(m.session_id) THEN m.session_id[1] ELSE "no_session")
        \o "_" \o ToString(Cardinality(DOMAIN debounce_storage))

debounce_key(m) ==
    m.agent_id \o "_" \o m.user_id \o "_" \o
        (IF Truthy(m.session_id) THEN m.session_id[1] ELSE "no_session")

\* the (agent, user, session) triple of a message as it was submitted
Triple(m) == <<m.agent_id, m.user_id, m.submitted_session>>

(***************************************************************************)
(* State of the coordinator as one record, threaded through the helpers.   *)
(*   storage : debounce_storage     tasks : the flush tasks                *)
(*   msgs    : the message objects                                         *)
(* A message object has the MessageInput fields plus three history fields  *)
(* that no code reads: at (time of acceptance), submitted_session and      *)
(* key (the debounce key computed when it was accepted).                   *)
(* A task is                                                               *)
(*   key, delay, deadline   arguments of delayed_process and its wake time *)
(*   state    "sleeping" | "running" | "done" | "cancelled"                *)
(*   batch    the messages handed to process_message_batch (object ids)    *)
(*   g, i     position in agent_groups: group g, message i                 *)
(*   at       the await it is suspended on: "context" | "save" | "webhook" *)
(*   agent_config, webhook_url   the dict agent_config of main.py:189, by   *)
(*            its identity (its created_at; -1 without a frame), and what   *)
(*            agent_config["webhook_url"] reads now: PUT /agents/{id}       *)
(*            updates the dict in place (main.py:436)                      *)
(*   agent    the SimpleAgent of the agent group (main.py:193), None       *)
(*            without a frame                                              *)
(*   reply    the reply to the current message: "ok" (the model's) or      *)
(*            "fallback"                                                   *)
(*   log      history: the calls this task has made, in order, each with   *)
(*            the message it was made for: "context", "invoke", "save",    *)
(*            "webhook"; the failures "context_failed", "save_failed",     *)
(*            "webhook_failed" that the callee swallowed and "error" that  *)
(*            the loop caught; "not_found" and "init_error" for an agent   *)
(*            group that was skipped, with its first message               *)
(*   firedAt, seen   history: the time of its wake-up (-1 before) and the   *)
(*            number of messages received by then                          *)
(***************************************************************************)
State == [storage |-> debounce_storage, tasks |-> tasks, msgs |-> msgs]

Commit(st) ==
    /\ debounce_storage' = st.storage
    /\ tasks' = st.tasks
    /\ msgs' = st.msgs

Entry(kind, mid) == [kind |-> kind, mid |-> mid]

Logged(st, t, e) == [st EXCEPT !.tasks[t].log = Append(@, e)]

(***************************************************************************)
(* receive_messages (main.py:329-385).                                     *)
(***************************************************************************)
\* debounce_groups (main.py:340-348): one entry per key in order of first
\* appearance, each with its messages in request order
debounce_groups(ms, mids) ==
    LET keys == Distinct([k \in 1..Len(mids) |-> debounce_key(ms[mids[k]])])
    IN [j \in 1..Len(keys) |->
          [key |-> keys[j],
           messages |-> SelectSeq(mids, LAMBDA x : debounce_key(ms[x]) = keys[j])]]

\* CancelTask with the cancellation of main.py:355 left out
CancelTaskIgnored(ts, t) == ts

\* extend with the stored list overwritten instead of extended
extend_overwrites(list, group_messages) == group_messages

\* a task that has ended: its coroutine frame is gone, its history stays
Ended(task, state) ==
    [task EXCEPT !.state = state, !.g = 0, !.i = 0, !.at = "",
                 !.agent_config = -1, !.webhook_url = "", !.agent = None,
                 !.reply = ""]

\* Task.cancel() (main.py:355): the task ends at the await it is suspended
\* on; a task that has ended is not affected
CancelTask(ts, t) ==
    IF ts[t].state \in {"sleeping", "running"}
    THEN [ts EXCEPT ![t] = Ended(@, "cancelled")]
    ELSE ts

\* extend with the new messages put in front of the stored ones
extend_prepends(list, group_messages) == group_messages \o list

\* list.extend (main.py:357)
extend(list, group_messages) == list \o group_messages

\* debounce_time (main.py:366), kept in milliseconds: asyncio.sleep gets
\* debounce / 1000.0 seconds
debounce_time(ms, group_messages) == ms[group_messages[1]].debounce

NewTask(key, delay) ==
    [key |-> key, delay |-> delay, deadline |-> now + delay,
     state |-> "sleeping", batch |-> <<>>, g |-> 0, i |-> 0, at |-> "",
     agent_config |-> -1, webhook_url |-> "", agent |-> None,
     reply |-> "", log |-> <<>>,
     firedAt |-> -1, seen |-> 0]

\* arm_group with a fixed window: a group that exists keeps the flush task
\* it has, and only a new group arms one
arm_group_fixed_window(st, grp) ==
    IF grp.key \in DOMAIN st.storage
    THEN [st EXCEPT !.storage[grp.key].messages = extend(@, grp.messages)]
    ELSE [st EXCEPT
            !.tasks = Append(st.tasks, NewTask(grp.key, debounce_time(st.msgs, grp.messages))),
            !.storage = [k \in DOMAIN st.storage \cup {grp.key} |->
                           IF k = grp.key
                           THEN [messages |-> grp.messages, task |-> Len(st.tasks) + 1]
                           ELSE st.storage[k]]]

\* arm_group with the flush awaited instead of scheduled (no create_task):
\* the dispatch of the group starts inside the handler
arm_group_awaits(st, grp) ==
    LET key == grp.key
        present == key \in DOMAIN st.storage
        ts1 == IF present THEN CancelTask(st.tasks, st.storage[key].task)
               ELSE st.tasks
        list == IF present THEN extend(st.storage[key].messages, grp.messages)
                ELSE grp.messages
        task == [NewTask(key, debounce_time(st.msgs, grp.messages)) EXCEPT
                    !.state = "running", !.batch = list, !.g = 1, !.i = 1,
                    !.at = "context", !.firedAt = now, !.seen = Len(st.msgs),
                    !.log = <<Entry("context", list[1])>>]
    IN [st EXCEPT
          !.tasks = Append(ts1, task),
          !.storage = [k \in DOMAIN st.storage \cup {key} |->
                         IF k = key THEN [messages |-> list, task |-> Len(ts1) + 1]
                         ELSE st.storage[k]]]

\* arm_group made idempotent: a message whose message id is that of a message
\* pending for the key is not added again
arm_group_idempotent(st, grp) ==
    LET key == grp.key
        present == key \in DOMAIN st.storage
        ts1 == IF present THEN CancelTask(st.tasks, st.storage[key].task)
               ELSE st.tasks
        pending == IF present
                   THEN {st.msgs[x].message_id : x \in Range(st.storage[key].messages)}
                   ELSE {}
        fresh == SelectSeq(grp.messages,
                           LAMBDA x : st.msgs[x].message_id = None
                                        \/ st.msgs[x].message_id \notin pending)
        list == IF present THEN extend(st.storage[key].messages, fresh)
                ELSE grp.messages
    IN [st EXCEPT
          !.tasks = Append(ts1, NewTask(key, debounce_time(st.msgs, grp.messages))),
          !.storage = [k \in DOMAIN st.storage \cup {key} |->
                         IF k = key THEN [messages |-> list, task |-> Len(ts1) + 1]
                         ELSE st.storage[k]]]

\* one iteration of the loop of main.py:351-375
arm_group(st, grp) ==
    LET key == grp.key
        present == key \in DOMAIN st.storage
        ts1 == IF present THEN CancelTask(st.tasks, st.storage[key].task)
               ELSE st.tasks
        list == IF present THEN extend(st.storage[key].messages, grp.messages)
                ELSE grp.messages
        tid == Len(ts1) + 1
        task == NewTask(key, debounce_time(st.msgs, grp.messages))
    IN [st EXCEPT
          !.tasks = Append(ts1, task),
          !.storage = [k \in DOMAIN st.storage \cup {key} |->
                         IF k = key THEN [messages |-> list, task |-> tid]
                         ELSE st.storage[k]]]

RECURSIVE arm_groups(_, _, _)
\* arm_groups with a group created before the loop for the request as a whole:
\* a request without messages leaves a group with no message and no task
arm_groups_empty_group(st, groups, j) ==
    IF groups = <<>>
    THEN [st EXCEPT !.storage = [k \in DOMAIN st.storage \cup {""} |->
                                   IF k = "" THEN [messages |-> <<>>, task |-> 0]
                                   ELSE st.storage[k]]]
    ELSE IF j > Len(groups) THEN st
    ELSE arm_groups(arm_group(st, groups[j]), groups, j + 1)

\* the loop of main.py:351-375
arm_groups(st, groups, j) ==
    IF j > Len(groups) THEN st
    ELSE arm_groups(arm_group(st, groups[j]), groups, j + 1)

\* the message object made of a MessageInput
NewMessage(m) ==
    [agent_id |-> m.agent_id, user_id |-> m.user_id,
     session_id |-> m.session_id, debounce |-> m.debounce,
     message_id |-> m.message_id, at |-> now, submitted_session |-> m.session_id, key |-> debounce_key(m)]

\* accepted with the empty request refused as invalid
accepted_unless_empty(messages, groups) ==
    IF messages = <<>>
    THEN [status |-> 422, success |-> FALSE, received |-> 0, debounce_groups |-> 0]
    ELSE [status |-> 200, success |-> TRUE, received |-> Len(messages),
          debounce_groups |-> Len(groups)]

\* the response of main.py:377-381, sent with status 200; received is the
\* number in its message text
accepted(messages, groups) ==
    [status |-> 200, success |-> TRUE, received |-> Len(messages),
     debounce_groups |-> Len(groups)]

\* api_key is what get_api_key_from_header returned (main.py:333)
receive_messages(messages, api_key) ==
    /\ serving
    /\ Len(msgs) + Len(messages) <= MaxMsgs
    /\ \A k \in 1..Len(messages) : now + messages[k].debounce <= MaxTime
    /\ LET n == Len(msgs)
           mids == [k \in 1..Len(messages) |-> n + k]
           st0 == [State EXCEPT
                     !.msgs = msgs \o [k \in 1..Len(messages) |-> NewMessage(messages[k])]]
           groups == debounce_groups(st0.msgs, mids)
       IN /\ Commit(arm_groups(st0, groups, 1))
          /\ response' = Some(accepted(messages, groups))
    /\ x_api_key' = Some(api_key)
    /\ UNCHANGED <<agents_storage, now, agentOps, agent_response, created, shutdown>>

(***************************************************************************)
(* process_message_batch and process_agent_messages (main.py:156-244).     *)
(***************************************************************************)
\* agent_groups (main.py:162-166): one entry per agent id in order of first
\* appearance, each with its messages in batch order
agent_groups(ms, batch) ==
    LET ids == Distinct([k \in 1..Len(batch) |-> ms[batch[k]].agent_id])
    IN [j \in 1..Len(ids) |->
          [agent_id |-> ids[j],
           messages |-> SelectSeq(batch, LAMBDA x : ms[x].agent_id = ids[j])]]

\* the message the task is processing
Current(st, t) ==
    agent_groups(st.msgs, st.tasks[t].batch)[st.tasks[t].g].messages[st.tasks[t].i]

\* Finish with the whole store cleared instead of the key of the flush
FinishClearsStore(st, t) ==
    [st EXCEPT !.storage = [k \in {} |-> 0], !.tasks[t] = Ended(@, "done")]

\* Finish with the deletion of main.py:173-174 left out
FinishKeepsGroup(st, t) == [st EXCEPT !.tasks[t] = Ended(@, "done")]

\* main.py:172-176: the key is deleted after the last agent group, and the
\* task ends
Finish(st, t) ==
    [st EXCEPT
       !.storage = [k \in DOMAIN st.storage \ {st.tasks[t].key} |-> st.storage[k]],
       !.tasks[t] = Ended(@, "done")]

\* str(uuid.uuid4()) (main.py:203, 402): a fresh string, named after the
\* call that made it: the flush task and the message object, or the registry
\* change.
uuid4(seed) == "uuid-" \o ToString(seed)

\* StartMessage with the generated session id kept in a local variable: the
\* message object is left alone, and every dispatch of a message submitted
\* without a session id generates one
StartMessageRegenerates(st, t, g, i) ==
    LET mid == agent_groups(st.msgs, st.tasks[t].batch)[g].messages[i]
        st1 == IF Truthy(st.msgs[mid].submitted_session) THEN st
               ELSE [st EXCEPT !.msgs[mid].session_id = Some(uuid4(<<t, mid>>))]
    IN Logged([st1 EXCEPT !.tasks[t].g = g, !.tasks[t].i = i,
                          !.tasks[t].at = "context", !.tasks[t].reply = ""],
              t, Entry("context", mid))

\* main.py:199-209: the loop body up to the await of get_cognee_context; a
\* falsy session id is replaced by a fresh uuid4 in the message object
StartMessage(st, t, g, i) ==
    LET mid == agent_groups(st.msgs, st.tasks[t].batch)[g].messages[i]
        st1 == IF Truthy(st.msgs[mid].session_id) THEN st
               ELSE [st EXCEPT !.msgs[mid].session_id = Some(uuid4(<<t, mid>>))]
    IN Logged([st1 EXCEPT !.tasks[t].g = g, !.tasks[t].i = i,
                          !.tasks[t].at = "context", !.tasks[t].reply = ""],
              t, Entry("context", mid))

\* SimpleAgent with the defaults of AgentConfig in place of the fields of
\* the stored configuration
SimpleAgentDefaults(agent_config) ==
    Some([f \in Configurable \cup {"id"} |->
            IF f = "id" THEN agent_config[f] ELSE Plain[f]])

\* SimpleAgent(agent_config) (main.py:193, simple_agent.py:36-45): the agent
\* copies the fields of the configuration when it is constructed
SimpleAgent(agent_config) ==
    Some([f \in Configurable \cup {"id"} |-> agent_config[f]])

RECURSIVE EnterGroup(_, _, _, _)
\* EnterGroup with the missing agent raising (a KeyError of
\* agents_storage[agent_id] that nothing catches before main.py:178): the
\* flush ends there, without its other agent groups and without the deletion
EnterGroupMissingRaises(st, t, g, fails) ==
    LET groups == agent_groups(st.msgs, st.tasks[t].batch)
    IN IF g > Len(groups) THEN Finish(st, t)
       ELSE IF groups[g].agent_id \notin DOMAIN agents_storage
       THEN [Logged(st, t, Entry("not_found", groups[g].messages[1]))
               EXCEPT !.tasks[t] = Ended(@, "done")]
       ELSE IF groups[g].agent_id \in fails
       THEN EnterGroup(Logged(st, t, Entry("init_error", groups[g].messages[1])),
                       t, g + 1, fails)
       ELSE StartMessage(
                [st EXCEPT !.tasks[t].agent_config =
                               agents_storage[groups[g].agent_id].created_at,
                           !.tasks[t].webhook_url =
                               agents_storage[groups[g].agent_id].webhook_url,
                           !.tasks[t].agent =
                               SimpleAgent(agents_storage[groups[g].agent_id])],
                t, g, 1)

\* main.py:169-170 and 183-197: the next agent group.  An agent that is not in
\* the registry is skipped (185-187); an exception of SimpleAgent(agent_config)
\* (193) is caught at 243 and skips the group too.  fails is the set of agents
\* whose construction raises now.
EnterGroup(st, t, g, fails) ==
    LET groups == agent_groups(st.msgs, st.tasks[t].batch)
    IN IF g > Len(groups) THEN Finish(st, t)
       ELSE IF groups[g].agent_id \notin DOMAIN agents_storage
       THEN EnterGroup(Logged(st, t, Entry("not_found", groups[g].messages[1])),
                       t, g + 1, fails)
       ELSE IF groups[g].agent_id \in fails
       THEN EnterGroup(Logged(st, t, Entry("init_error", groups[g].messages[1])),
                       t, g + 1, fails)
       ELSE StartMessage(
                [st EXCEPT !.tasks[t].agent_config =
                               agents_storage[groups[g].agent_id].created_at,
                           !.tasks[t].webhook_url =
                               agents_storage[groups[g].agent_id].webhook_url,
                           !.tasks[t].agent =
                               SimpleAgent(agents_storage[groups[g].agent_id])],
                t, g, 1)

\* the end of one iteration of the loop of main.py:199
NextMessage(st, t, fails) ==
    LET tk == st.tasks[t]
        group == agent_groups(st.msgs, tk.batch)[tk.g]
    IN IF tk.i < Len(group.messages) THEN StartMessage(st, t, tk.g, tk.i + 1)
       ELSE EnterGroup(st, t, tk.g + 1, fails)

\* MessageFailed with the exception leaving the loop of main.py:199 (no
\* handler inside the loop): the handler of main.py:243 ends the agent group
MessageFailedAborts(st, t, fails) == EnterGroup(st, t, st.tasks[t].g + 1, fails)

\* main.py:240-241: an exception of the loop body is logged and the loop goes on
MessageFailed(st, t, fails) == NextMessage(st, t, fails)

\* delayed_process (main.py:368-372) after its sleep, with the synchronous
\* start of process_message_batch
delayed_process(t, fails) ==
    /\ serving
    /\ tasks[t].state = "sleeping"
    /\ tasks[t].deadline <= now
    /\ LET key == tasks[t].key
           woken == [State EXCEPT !.tasks[t].firedAt = now,
                                  !.tasks[t].seen = Len(msgs)]
       IN IF key \in DOMAIN debounce_storage
          THEN Commit(EnterGroup(
                   [woken EXCEPT !.tasks[t].state = "running",
                                 !.tasks[t].batch = debounce_storage[key].messages],
                   t, 1, fails))
          ELSE Commit([woken EXCEPT !.tasks[t] = Ended(@, "done")])
    /\ UNCHANGED <<agents_storage, now, agentOps, response, x_api_key,
                   agent_response, created, shutdown>>

\* get_cognee_context (main.py:246-267) returns the history it found
\* ("history"), or logs its failure and returns {} ("empty"); the dispatcher
\* does not read the value (main.py:209-218)
get_cognee_context(st, t, context) ==
    IF context = "empty"
    THEN Logged(st, t, Entry("context_failed", Current(st, t)))
    ELSE st

\* main.py:212-232: get_cognee_context has returned; agent.process runs and
\* returns the reply of the model ("ok") or its fallback reply ("fallback",
\* simple_agent.py:268-278), and save_to_cognee is called; or the body raises
\* after the call ("raise") and the handler of main.py:240 takes over
get_cognee_context_done(t, context, outcome, fails) ==
    /\ serving
    /\ tasks[t].state = "running"
    /\ tasks[t].at = "context"
    /\ LET mid == Current(State, t)
           st1 == get_cognee_context(State, t, context)
       IN IF outcome = "raise"
          THEN Commit(MessageFailed(
                   Logged(Logged(st1, t, Entry("invoke", mid)),
                          t, Entry("error", mid)),
                   t, fails))
          ELSE Commit(Logged(Logged([st1 EXCEPT !.tasks[t].at = "save",
                                                !.tasks[t].reply = outcome],
                                    t, Entry("invoke", mid)),
                             t, Entry("save", mid)))
    /\ UNCHANGED <<agents_storage, now, agentOps, response, x_api_key,
                   agent_response, created, shutdown>>

\* AfterSave with the webhook sent once per agent group, after its last
\* message
AfterSaveOncePerGroup(st, t, fails) ==
    IF /\ st.tasks[t].webhook_url # ""
       /\ st.tasks[t].i = Len(agent_groups(st.msgs, st.tasks[t].batch)[st.tasks[t].g].messages)
    THEN Logged([st EXCEPT !.tasks[t].at = "webhook"],
                t, Entry("webhook", Current(st, t)))
    ELSE NextMessage(st, t, fails)

\* main.py:234-238: after save_to_cognee the webhook is sent when the agent
\* has one
AfterSave(st, t, fails) ==
    IF st.tasks[t].webhook_url # ""
    THEN Logged([st EXCEPT !.tasks[t].at = "webhook"],
                t, Entry("webhook", Current(st, t)))
    ELSE NextMessage(st, t, fails)

\* save_to_cognee with its failure propagated to the caller, whose handler
\* (main.py:240) ends the work on the message
save_to_cognee_raises(st, t, saved, fails) ==
    IF saved THEN AfterSave(st, t, fails)
    ELSE MessageFailed(
             Logged(Logged(st, t, Entry("save_failed", Current(st, t))),
                    t, Entry("error", Current(st, t))),
             t, fails)

\* save_to_cognee (main.py:269-292) records the turn or logs its failure; it
\* returns in both cases
save_to_cognee(st, t, saved, fails) ==
    IF saved THEN AfterSave(st, t, fails)
    ELSE AfterSave(Logged(st, t, Entry("save_failed", Current(st, t))), t, fails)

save_to_cognee_done(t, saved, fails) ==
    /\ serving
    /\ tasks[t].state = "running"
    /\ tasks[t].at = "save"
    /\ Commit(save_to_cognee(State, t, saved, fails))
    /\ UNCHANGED <<agents_storage, now, agentOps, response, x_api_key,
                   agent_response, created, shutdown>>

\* send_webhook with its failure propagated through process_agent_messages to
\* the handler of process_message_batch (main.py:178): the flush ends there
send_webhook_raises(st, t, sent, fails) ==
    IF sent THEN NextMessage(st, t, fails)
    ELSE [Logged(st, t, Entry("webhook_failed", Current(st, t)))
            EXCEPT !.tasks[t] = Ended(@, "done")]

\* send_webhook (main.py:294-306) posts the reply or logs its failure; it
\* returns in both cases and the loop goes on (main.py:236-238)
send_webhook(st, t, sent, fails) ==
    IF sent THEN NextMessage(st, t, fails)
    ELSE NextMessage(Logged(st, t, Entry("webhook_failed", Current(st, t))), t, fails)

send_webhook_done(t, sent, fails) ==
    /\ serving
    /\ tasks[t].state = "running"
    /\ tasks[t].at = "webhook"
    /\ Commit(send_webhook(State, t, sent, fails))
    /\ UNCHANGED <<agents_storage, now, agentOps, response, x_api_key,
                   agent_response, created, shutdown>>

(***************************************************************************)
(* The agent registry (main.py:399-461).                                   *)
(***************************************************************************)
\* datetime.now().isoformat() (main.py:416-417, 445): the handlers run one
\* at a time and the clock of the host has moved between two of them, so the
\* stamp of a change is modelled by its number
isoformat_now == agentOps + 1

\* the response to a request to /agents, with the request it answers: the
\* method, the id of the path ("" without one) and the body (None without one)
Answer(method, agent_id, agent, status, body) ==
    Some([request |-> [method |-> method, agent_id |-> agent_id, agent |-> agent],
          status |-> status, body |-> body])

\* HTTPException(status_code=404, detail=...) (main.py:395, 434, 456)
NotFound(method, agent_id, agent) ==
    Answer(method, agent_id, agent, 404, [detail |-> "Agente nao encontrado"])

\* agent_data with the submitted name left out
agent_data_unnamed(agent, agent_id, stamp) ==
    [f \in Configurable \cup {"id", "created_at", "updated_at"} |->
        IF f = "id" THEN agent_id
        ELSE IF f \in {"created_at", "updated_at"} THEN stamp
        ELSE IF f = "name" THEN ""
        ELSE agent[f]]

\* the record of a new agent (main.py:406-418)
agent_data(agent, agent_id, stamp) ==
    [f \in Configurable \cup {"id", "created_at", "updated_at"} |->
        IF f = "id" THEN agent_id
        ELSE IF f \in {"created_at", "updated_at"} THEN stamp
        ELSE agent[f]]

\* update with the record made anew, created_at included
update_restamps(data, agent, stamp) ==
    [f \in DOMAIN data |->
        IF f \in Configurable THEN agent[f]
        ELSE IF f \in {"created_at", "updated_at"} THEN stamp
        ELSE data[f]]

\* dict.update of main.py:436-446
update(data, agent, stamp) ==
    [f \in DOMAIN data |->
        IF f \in Configurable THEN agent[f]
        ELSE IF f = "updated_at" THEN stamp
        ELSE data[f]]

\* f without the key
Without(f, key) == [a \in DOMAIN f \ {key} |-> f[a]]

\* GET /agents/{agent_id} (main.py:392-397)
get_agent(agent_id) ==
    /\ serving
    /\ agent_response' =
          IF agent_id \notin DOMAIN agents_storage
          THEN NotFound("GET", agent_id, None)
          ELSE Answer("GET", agent_id, None, 200, agents_storage[agent_id])
    /\ UNCHANGED <<agents_storage, debounce_storage, msgs, tasks, now, agentOps,
                   response, x_api_key, created, shutdown>>

\* create_agent without the check of main.py:404-405: the agent stored under
\* the id is replaced
create_agent_overwrites(agent) ==
    /\ serving
    /\ LET agent_id == IF Truthy(agent.id) THEN agent.id[1] ELSE uuid4(isoformat_now)
           data == agent_data(agent, agent_id, isoformat_now)
       IN /\ agents_storage' = [a \in DOMAIN agents_storage \cup {agent_id} |->
                                  IF a = agent_id THEN data ELSE agents_storage[a]]
          /\ agent_response' = Answer("POST", "", Some(agent), 200, data)
          /\ created' = [a \in DOMAIN created \cup {agent_id} |->
                           IF a = agent_id THEN agent ELSE created[a]]
          /\ agentOps' = agentOps + 1
    /\ UNCHANGED <<debounce_storage, msgs, tasks, now, response, x_api_key, shutdown>>

\* POST /agents (main.py:399-424)
create_agent(agent) ==
    /\ serving
    /\ LET agent_id == IF Truthy(agent.id) THEN agent.id[1] ELSE uuid4(isoformat_now)
           data == agent_data(agent, agent_id, isoformat_now)
       IN IF agent_id \in DOMAIN agents_storage
          THEN /\ agent_response' =
                      Answer("POST", "", Some(agent), 400, [detail |-> "Agente ja existe"])
               /\ UNCHANGED <<agents_storage, agentOps, created>>
          ELSE /\ agents_storage' = [a \in DOMAIN agents_storage \cup {agent_id} |->
                                       IF a = agent_id THEN data ELSE agents_storage[a]]
               /\ agent_response' = Answer("POST", "", Some(agent), 200, data)
               /\ created' = [a \in DOMAIN created \cup {agent_id} |->
                                IF a = agent_id THEN agent ELSE created[a]]
               /\ agentOps' = agentOps + 1
    /\ UNCHANGED <<debounce_storage, msgs, tasks, now, response, x_api_key, shutdown>>

\* PUT /agents/{agent_id} (main.py:426-450).  The dict of the agent is updated
\* in place, so a flush that holds it as agent_config reads the new
\* webhook_url at main.py:235.
update_agent(agent_id, agent) ==
    /\ serving
    /\ IF agent_id \notin DOMAIN agents_storage
       THEN /\ agent_response' = NotFound("PUT", agent_id, Some(agent))
            /\ UNCHANGED <<agents_storage, tasks, agentOps, created>>
       ELSE LET data == update(agents_storage[agent_id], agent, isoformat_now)
            IN /\ agents_storage' = [agents_storage EXCEPT ![agent_id] = data]
               /\ tasks' = [t \in 1..Len(tasks) |->
                              IF tasks[t].agent_config = data.created_at
                              THEN [tasks[t] EXCEPT !.webhook_url = data.webhook_url]
                              ELSE tasks[t]]
               /\ agent_response' = Answer("PUT", agent_id, Some(agent), 200, data)
               /\ created' = Without(created, agent_id)
               /\ agentOps' = agentOps + 1
    /\ UNCHANGED <<debounce_storage, msgs, now, response, x_api_key, shutdown>>

\* delete_agent with the agent marked as removed in the answer only
delete_agent_soft(agent_id) ==
    /\ serving
    /\ IF agent_id \notin DOMAIN agents_storage
       THEN /\ agent_response' = NotFound("DELETE", agent_id, None)
            /\ UNCHANGED <<agents_storage, agentOps, created>>
       ELSE /\ agent_response' = Answer("DELETE", agent_id, None, 200,
                                        [message |-> "Agente removido com sucesso"])
            /\ agentOps' = agentOps + 1
            /\ UNCHANGED <<agents_storage, created>>
    /\ UNCHANGED <<debounce_storage, msgs, tasks, now, response, x_api_key, shutdown>>

\* DELETE /agents/{agent_id} (main.py:452-461)
delete_agent(agent_id) ==
    /\ serving
    /\ IF agent_id \notin DOMAIN agents_storage
       THEN /\ agent_response' = NotFound("DELETE", agent_id, None)
            /\ UNCHANGED <<agents_storage, agentOps, created>>
       ELSE /\ agents_storage' = Without(agents_storage, agent_id)
            /\ agent_response' = Answer("DELETE", agent_id, None, 200,
                                        [message |-> "Agente removido com sucesso"])
            /\ created' = Without(created, agent_id)
            /\ agentOps' = agentOps + 1
    /\ UNCHANGED <<debounce_storage, msgs, tasks, now, response, x_api_key, shutdown>>

(***************************************************************************)
(* The API key (main.py:148-153) in front of POST /messages.               *)
(***************************************************************************)
\* get_api_key_from_header with every header accepted, an absent one as ""
get_api_key_from_header_any(header) == IF header = None THEN Some("") ELSE header

\* get_api_key_from_header returns the key, or raises (None)
get_api_key_from_header(header) ==
    IF Truthy(header) /\ header[1] = API_KEY THEN header ELSE None

\* HTTPException(status_code=401, ...) (main.py:152)
Unauthorized == [status |-> 401, detail |-> "Chave de API invalida"]

\* POST /messages with its dependency: the handler runs if the dependency
\* returns
post_messages(header, messages) ==
    IF get_api_key_from_header(header) # None
    THEN receive_messages(messages, get_api_key_from_header(header)[1])
    ELSE /\ serving
         /\ response' = Some(Unauthorized)
         /\ x_api_key' = header
         /\ UNCHANGED <<agents_storage, debounce_storage, msgs, tasks, now, agentOps,
                        agent_response, created, shutdown>>

(***************************************************************************)
(* The end of lifespan (main.py:119-121): the shutdown is logged, with no   *)
(* message named, and the process ends with its event loop.                *)
(***************************************************************************)
lifespan_shutdown ==
    /\ serving
    /\ shutdown' = Some(<<>>)
    /\ UNCHANGED <<agents_storage, debounce_storage, msgs, tasks, now, agentOps,
                   response, x_api_key, agent_response, created>>

(***************************************************************************)
(* Time.  The program reads the clock through asyncio.sleep only, so the    *)
(* clock is modelled while a flush task sleeps; a sleep that is due wakes  *)
(* before the clock moves on.                                              *)
(***************************************************************************)
Tick ==
    /\ serving
    /\ now + TickMs <= MaxTime
    /\ \E t \in 1..Len(tasks) : tasks[t].state = "sleeping"
    /\ \A t \in 1..Len(tasks) :
          tasks[t].state = "sleeping" => tasks[t].deadline > now
    /\ now' = now + TickMs
    /\ UNCHANGED <<agents_storage, debounce_storage, msgs, tasks, agentOps, response,
                   x_api_key, agent_response, created, shutdown>>

(***************************************************************************)
(* The specification.  Init is the state after lifespan has created the    *)
(* default agent (main.py:102-117).                                        *)
(***************************************************************************)
\* default_agent (main.py:102-114)
default_agent ==
    agent_data([Plain EXCEPT !.name = "default", !.description = "default agent"],
               DefaultAgentId, 0)

Init ==
    /\ agents_storage = [a \in {DefaultAgentId} |-> default_agent]
    /\ debounce_storage = [k \in {} |-> 0]
    /\ msgs = <<>>
    /\ tasks = <<>>
    /\ now = 0
    /\ agentOps = 0
    /\ response = None
    /\ x_api_key = None
    /\ agent_response = None
    /\ created = [a \in {} |-> 0]
    /\ shutdown = None

\* the bodies of a POST /messages that carry messages
Requests == UNION {[1..n -> MessageInput] : n \in 1..MaxReqLen}

\* Knowledge Sync and the Webhook Sender succeed here: their failures change
\* the log only, and are in SpecFaults
Next ==
    \/ \E messages \in Requests : receive_messages(messages, API_KEY)
    \/ \E t \in 1..Len(tasks), fails \in SUBSET AgentIds : delayed_process(t, fails)
    \/ \E t \in 1..Len(tasks), outcome \in {"ok", "fallback", "raise"},
          fails \in SUBSET AgentIds :
              get_cognee_context_done(t, "history", outcome, fails)
    \/ \E t \in 1..Len(tasks), fails \in SUBSET AgentIds :
              save_to_cognee_done(t, TRUE, fails)
    \/ \E t \in 1..Len(tasks), fails \in SUBSET AgentIds :
              send_webhook_done(t, TRUE, fails)
    \/ \E id \in AgentIds \ DOMAIN agents_storage, body \in AgentBodies :
          agentOps < MaxAgentOps /\ create_agent(AgentConfig(Some(id), body))
    \/ \E id \in DOMAIN agents_storage :
          agentOps < MaxAgentOps /\ delete_agent(id)
    \/ Tick

Spec == Init /\ [][Next]_vars

(***************************************************************************)
(* The gateway with a failing Knowledge Sync and Webhook Sender, and with  *)
(* requests that carry no message.  To keep it finite enough, the agents   *)
(* can be constructed and answer, and the requests with messages stop      *)
(* after MaxFaultMsgs messages.                                            *)
(***************************************************************************)
RequestsFaults == UNION {[1..n -> MessageInput] : n \in 0..MaxReqLen}

NextFaults ==
    \/ \E messages \in RequestsFaults :
          /\ messages = <<>> \/ Len(msgs) < MaxFaultMsgs
          /\ receive_messages(messages, API_KEY)
    \/ \E t \in 1..Len(tasks) : delayed_process(t, {})
    \/ \E t \in 1..Len(tasks), context \in {"history", "empty"} :
              get_cognee_context_done(t, context, "ok", {})
    \/ \E t \in 1..Len(tasks), saved \in BOOLEAN : save_to_cognee_done(t, saved, {})
    \/ \E t \in 1..Len(tasks), sent \in BOOLEAN : send_webhook_done(t, sent, {})
    \/ \E id \in AgentIds \ DOMAIN agents_storage, body \in AgentBodies :
          agentOps < MaxAgentOps /\ create_agent(AgentConfig(Some(id), body))
    \/ \E id \in DOMAIN agents_storage :
          agentOps < MaxAgentOps /\ delete_agent(id)
    \/ Tick

SpecFaults == Init /\ [][NextFaults]_vars

(***************************************************************************)
(* The gateway with requests of one message whose agent id, user id and    *)
(* session id are drawn from a product, the absent and the empty session   *)
(* id included; the agents can be constructed and answer.                  *)
(***************************************************************************)
SessionIds == {None, Some(""), Some("s")}
UserIds == {"b_c", "c"}

RequestsKeys ==
    {<<Msg(agent, user, session, TickMs, None)>> :
        agent \in AgentIds, user \in UserIds, session \in SessionIds}

NextKeys ==
    \/ \E messages \in RequestsKeys : receive_messages(messages, API_KEY)
    \/ \E t \in 1..Len(tasks) : delayed_process(t, {})
    \/ \E t \in 1..Len(tasks) : get_cognee_context_done(t, "history", "ok", {})
    \/ \E t \in 1..Len(tasks) : save_to_cognee_done(t, TRUE, {})
    \/ Tick

SpecKeys == Init /\ [][NextKeys]_vars

(***************************************************************************)
(* The gateway seen through its API: the requests to /agents with all      *)
(* their answers, POST /messages with and without the API key, one message *)
(* and its flush, and the shutdown.                                        *)
(***************************************************************************)
RequestsApi == {<<Msg("a", "b_c", None, TickMs, None)>>}
AgentConfigIds == {None, Some("")} \cup {Some(id) : id \in AgentIds}

NextApi ==
    \/ \E header \in ApiKeys, messages \in RequestsApi :
          /\ header = Some(API_KEY) => Len(msgs) < MaxApiMsgs
          /\ post_messages(header, messages)
    \/ \E t \in 1..Len(tasks) : delayed_process(t, {})
    \/ \E t \in 1..Len(tasks) : get_cognee_context_done(t, "history", "ok", {})
    \/ \E t \in 1..Len(tasks) : save_to_cognee_done(t, TRUE, {})
    \/ \E t \in 1..Len(tasks) : send_webhook_done(t, TRUE, {})
    \/ \E id \in AgentIds \cup DOMAIN agents_storage : get_agent(id)
    \/ \E id \in AgentConfigIds, body \in AgentBodies :
          agentOps < MaxApiOps /\ create_agent(AgentConfig(id, body))
    \/ \E id \in AgentIds \cup DOMAIN agents_storage, body \in AgentBodies :
          agentOps < MaxApiOps /\ update_agent(id, AgentConfig(None, body))
    \/ \E id \in AgentIds \cup DOMAIN agents_storage :
          agentOps < MaxApiOps /\ delete_agent(id)
    \/ Tick
    \/ lifespan_shutdown

SpecApi == Init /\ [][NextApi]_vars

(***************************************************************************)
(* The gateway with a registry that changes while messages are pending:    *)
(* the requests to /agents come after the last POST /messages, one message *)
(* each, for an agent of the registry or for one that is not in it.        *)
(***************************************************************************)
RequestsFlush ==
    {<<Msg(agent, user, None, TickMs, None)>> : agent \in AgentIds, user \in UserIds}

NextFlush ==
    \/ \E messages \in RequestsFlush :
          Len(msgs) < MaxFlushMsgs /\ receive_messages(messages, API_KEY)
    \/ \E t \in 1..Len(tasks) : delayed_process(t, {})
    \/ \E t \in 1..Len(tasks) : get_cognee_context_done(t, "history", "ok", {})
    \/ \E t \in 1..Len(tasks) : save_to_cognee_done(t, TRUE, {})
    \/ \E t \in 1..Len(tasks) : send_webhook_done(t, TRUE, {})
    \/ \E id \in AgentIds \ DOMAIN agents_storage, body \in AgentBodies :
          /\ Len(msgs) = MaxFlushMsgs /\ agentOps < MaxFlushOps
          /\ create_agent(AgentConfig(Some(id), body))
    \/ \E id \in DOMAIN agents_storage, body \in AgentBodies :
          /\ Len(msgs) = MaxFlushMsgs /\ agentOps < MaxFlushOps
          /\ update_agent(id, AgentConfig(None, body))
    \/ \E id \in DOMAIN agents_storage :
          /\ Len(msgs) = MaxFlushMsgs /\ agentOps < MaxFlushOps
          /\ delete_agent(id)
    \/ Tick

SpecFlush == Init /\ [][NextFlush]_vars

TypeOK ==
    /\ now \in 0..MaxTime
    /\ \A a \in DOMAIN agents_storage : agents_storage[a].webhook_url \in WebhookUrls
    /\ Len(msgs) <= MaxMsgs
    /\ \A t \in 1..Len(tasks) : tasks[t].state \in {"sleeping", "running", "done", "cancelled"}

(***************************************************************************)
(* Vocabulary of the properties.                                           *)
(***************************************************************************)
Tasks == 1..Len(tasks)
Mids == 1..Len(msgs)
Last(s) == s[Len(s)]

\* the task has woken from its sleep (delayed_process ran)
Fired(t) == tasks[t].firedAt # -1
Live(t) == tasks[t].state \in {"sleeping", "running"}

\* the task made this call for this message
Did(t, kind, mid) == Entry(kind, mid) \in Range(tasks[t].log)

\* the places of all logs where the Agent Invoker was called for the message
InvokeEvents(mid) ==
    {p \in UNION {{<<t, k>> : k \in 1..Len(tasks[t].log)} : t \in Tasks} :
        tasks[p[1]].log[p[2]] = Entry("invoke", mid)}

\* the messages a task handed to the Agent Invoker, in the order of the calls
Invoked(t) ==
    LET calls == SelectSeq(tasks[t].log, LAMBDA e : e.kind = "invoke")
    IN [k \in 1..Len(calls) |-> calls[k].mid]

InStore(mid) ==
    \E k \in DOMAIN debounce_storage : mid \in Range(debounce_storage[k].messages)

\* the message was in the batch of a flush that ran to its end
Flushed(mid) ==
    \E t \in Tasks : tasks[t].state = "done" /\ mid \in Range(tasks[t].batch)

\* a flush found the agent of the message missing from the registry
AgentMissing(mid) ==
    \E t \in Tasks : \E e \in Range(tasks[t].log) :
        /\ e.kind = "not_found"
        /\ mid \in Range(tasks[t].batch)
        /\ msgs[e.mid].agent_id = msgs[mid].agent_id

Sessionless(m1, m2) ==
    /\ msgs[m1].submitted_session = None
    /\ msgs[m2].submitted_session = None
    /\ msgs[m1].agent_id = msgs[m2].agent_id
    /\ msgs[m1].user_id = msgs[m2].user_id

\* C1: every accepted message is handed to the Agent Invoker at most once,
\* whatever the interleaving of submits and flushes.
C1_AtMostOnce ==
    \A mid \in Mids : Cardinality(InvokeEvents(mid)) <= 1

\* C2: when the flush of a key fires more than once, the group is taken by
\* one firing only: no message is in the batches of two firings.
C2_TakenOnce ==
    \A t1, t2 \in Tasks :
        (t1 # t2 /\ Fired(t1) /\ Fired(t2))
            => Range(tasks[t1].batch) \cap Range(tasks[t2].batch) = {}

\* C3: at most one flush task per key is live (neither cancelled nor
\* finished), and it is the task the group of the key records; every task a
\* submit superseded is cancelled or finished.
C3_OneLiveFlushPerKey ==
    \A t \in Tasks :
        Live(t) => /\ tasks[t].key \in DOMAIN debounce_storage
                   /\ debounce_storage[tasks[t].key].task = t
                   /\ \A u \in Tasks : (u # t /\ tasks[u].key = tasks[t].key) => ~Live(u)

C3_Witness ==
    \E t, u \in Tasks :
        /\ t < u
        /\ tasks[t].key = tasks[u].key
        /\ tasks[t].state = "cancelled"
        /\ ~Fired(t)
        /\ Live(u)

\* C4: debounce reset.  A flush fires exactly one armed delay after the last
\* submission for its key and not before, it holds every message received for
\* the key that no finished flush has handled, and no submission is flushed
\* by two firings.
C4_DebounceReset ==
    \A t \in Tasks :
        (Fired(t) /\ tasks[t].batch # <<>>) =>
            /\ tasks[t].firedAt = msgs[Last(tasks[t].batch)].at + tasks[t].delay
            /\ \A mid \in Mids :
                  (msgs[mid].key = tasks[t].key /\ mid <= tasks[t].seen)
                      => (mid \in Range(tasks[t].batch) \/ Flushed(mid))
            /\ \A u \in Tasks :
                  (u # t /\ Fired(u) /\ tasks[u].batch # <<>>)
                      => Last(tasks[u].batch) # Last(tasks[t].batch)

\* M1 at t=0 and M2 at t=500 with debounce 1000: one flush at t=1500 with [M1, M2]
C4_Witness ==
    \E t \in Tasks :
        /\ tasks[t].firedAt = 3 * TickMs
        /\ tasks[t].delay = MsPerSecond
        /\ Len(tasks[t].batch) = 2
        /\ msgs[tasks[t].batch[1]].at = 0
        /\ msgs[tasks[t].batch[1]].debounce = MsPerSecond
        /\ msgs[tasks[t].batch[2]].at = TickMs
        /\ \A u \in Tasks : u # t => ~Fired(u)

\* C5: no accepted message is dropped: a message whose agent is in the
\* registry at its flush is handed to the Agent Invoker, or is still pending
\* in the store.
C5_NeverDropped ==
    \A mid \in Mids :
        InStore(mid) \/ InvokeEvents(mid) # {} \/ AgentMissing(mid)

\* C6: the delay of the flush armed for a key is the debounce interval of the
\* most recently arrived message of that key.
C6_DelayOfLatestMessage ==
    \A k \in DOMAIN debounce_storage :
        tasks[debounce_storage[k].task].delay
            = msgs[Last(debounce_storage[k].messages)].debounce

\* C7: key isolation: messages whose (agent id, user id, session id) differ
\* are never in the same pending group nor in the same drained batch.
C7_KeyIsolation ==
    /\ \A k \in DOMAIN debounce_storage :
          \A m1, m2 \in Range(debounce_storage[k].messages) :
              Triple(msgs[m1]) = Triple(msgs[m2])
    /\ \A t \in Tasks :
          \A m1, m2 \in Range(tasks[t].batch) :
              Triple(msgs[m1]) = Triple(msgs[m2])

\* C8: two messages of the same (agent id, user id) without a session id have
\* the same key, wait in the same pending group and are flushed in one batch.
C8_SessionlessCoalesce ==
    \A m1, m2 \in Mids :
        Sessionless(m1, m2) =>
            /\ msgs[m1].key = msgs[m2].key
            /\ (~Flushed(m1) /\ ~Flushed(m2)) =>
                  \E k \in DOMAIN debounce_storage :
                      {m1, m2} \subseteq Range(debounce_storage[k].messages)
            /\ \A t \in Tasks :
                  (m1 \in Range(tasks[t].batch) /\ m2 <= tasks[t].seen)
                      => (m2 \in Range(tasks[t].batch) \/ Flushed(m2))

C8_Witness ==
    \E t \in Tasks : \E m1, m2 \in Range(tasks[t].batch) :
        /\ Fired(t)
        /\ m1 # m2
        /\ Sessionless(m1, m2)
        /\ msgs[m1].at # msgs[m2].at

\* C9: a flush hands the messages of its batch to the Agent Invoker in the
\* order they were submitted.
C9_OrderPreserved ==
    \A t \in Tasks :
        \A j, k \in 1..Len(Invoked(t)) : j < k => Invoked(t)[j] < Invoked(t)[k]

\* C10: a failure while one message is processed does not stop the flush: a
\* flush that has ended has processed every message of each agent group whose
\* loop it entered, and each of them either failed itself or went on to
\* Knowledge Sync.
C10_FailureIsolation ==
    \A t \in Tasks :
        tasks[t].state = "done" =>
            \A g \in Range(agent_groups(msgs, tasks[t].batch)) :
                (\E mid \in Range(g.messages) : Did(t, "context", mid)) =>
                    \A mid \in Range(g.messages) :
                        /\ Did(t, "invoke", mid)
                        /\ Did(t, "error", mid) \/ Did(t, "save", mid)

C10_Witness ==
    \E t \in Tasks : \E m1, m2 \in Range(tasks[t].batch) :
        /\ tasks[t].state = "done"
        /\ m1 < m2
        /\ Did(t, "error", m1)
        /\ Did(t, "save", m2)
        /\ ~Did(t, "error", m2)

\* C11: when the Agent Invoker fails for a message, the failure of the
\* construction of the agent included, Knowledge Sync runs for the message
\* with a reply (the fallback reply), and the messages after it are processed:
\* every message of an agent group whose agent could not be constructed is
\* handed to Knowledge Sync, and a task that waits for Knowledge Sync or for
\* the webhook holds a reply.
C11_InvokerFailureFallsBack ==
    /\ \A t \in Tasks :
          (tasks[t].state = "running" /\ tasks[t].at \in {"save", "webhook"})
              => tasks[t].reply \in {"ok", "fallback"}
    /\ \A t \in Tasks :
          \A g \in Range(agent_groups(msgs, tasks[t].batch)) :
              Did(t, "init_error", g.messages[1]) =>
                  \A mid \in Range(g.messages) : Did(t, "save", mid)

\* C12: while a flush is dispatching (the Agent Invoker, Knowledge Sync or the
\* Webhook Sender is running for its batch), its key is absent from the store.
C12_AbsentDuringDispatch ==
    \A t \in Tasks :
        tasks[t].state = "running" => tasks[t].key \notin DOMAIN debounce_storage

\* C13: a flush that has begun dispatching runs to completion: a task that
\* has woken from its sleep is never cancelled.
C13_FlushRunsToCompletion ==
    \A t \in Tasks : Fired(t) => tasks[t].state # "cancelled"

C15_AckBeforeDownstream ==
    [][/\ \A t \in 1..Len(tasks') :
             \A e \in Range(tasks'[t].log) : e.mid \in Mids
       /\ Len(msgs') > Len(msgs) =>
             /\ response' # None
             /\ response'[1].status = 200
             /\ response'[1].received = Len(msgs') - Len(msgs)]_vars

\* a message with a debounce of 0 reached the Agent Invoker at the time it
\* was submitted
C15_Witness ==
    \E t \in Tasks : \E mid \in Mids :
        /\ msgs[mid].debounce = 0
        /\ tasks[t].delay = 0
        /\ Did(t, "invoke", mid)
        /\ tasks[t].firedAt = msgs[mid].at
        /\ response # None

\* the flush made one of the downstream calls for the message
Called(t, mid) ==
    \E kind \in {"context", "invoke", "save", "webhook"} : Did(t, kind, mid)

\* the flush skipped the agent group: its agent was missing or could not be
\* constructed
Skipped(t, g) ==
    Did(t, "not_found", g.messages[1]) \/ Did(t, "init_error", g.messages[1])

\* the key of the task has had no later flush task
LastOfKey(t) == \A u \in Tasks : u > t => tasks[u].key # tasks[t].key

\* C16: when the agent of an agent group is not in the registry at flush
\* time, the flush makes no downstream call for the messages of the group,
\* and it goes on without an error: when it has ended it has processed the
\* messages of every other agent group it did not skip, and the group of its
\* key is removed from the store.
C16_MissingAgentSkipped ==
    \A t \in Tasks :
        \A g \in Range(agent_groups(msgs, tasks[t].batch)) :
            Did(t, "not_found", g.messages[1]) =>
                /\ \A mid \in Range(g.messages) :
                      ~Called(t, mid) /\ ~Did(t, "error", mid)
                /\ tasks[t].state = "done" =>
                      /\ \A h \in Range(agent_groups(msgs, tasks[t].batch)) :
                            Skipped(t, h) \/
                                \A mid \in Range(h.messages) : Did(t, "invoke", mid)
                      /\ \A k \in DOMAIN debounce_storage :
                            debounce_storage[k].task # t
                      /\ LastOfKey(t) => tasks[t].key \notin DOMAIN debounce_storage

\* a flush skipped its first agent group, whose agent was missing, and
\* processed the message of its second
C16_Witness ==
    \E t \in Tasks :
        LET groups == agent_groups(msgs, tasks[t].batch)
        IN /\ tasks[t].state = "done"
           /\ Len(groups) = 2
           /\ Did(t, "not_found", groups[1].messages[1])
           /\ Did(t, "save", groups[2].messages[1])
           /\ tasks[t].key \notin DOMAIN debounce_storage

\* Knowledge Sync failed for the message in this flush: reading the context or
\* recording the turn
KnowledgeSyncFailed(t, mid) ==
    Did(t, "context_failed", mid) \/ Did(t, "save_failed", mid)

\* the messages of the agent group of the message in the batch of the task
GroupOf(t, mid) ==
    SelectSeq(tasks[t].batch, LAMBDA x : msgs[x].agent_id = msgs[mid].agent_id)

\* C17: a failure of Knowledge Sync for a message is swallowed.  When reading
\* the context fails, the flush goes on to the Agent Invoker and to the
\* recording of the turn; when the recording returns for a message for which
\* Knowledge Sync failed and the agent has a webhook, the webhook is sent for
\* that message next; and a flush that has ended has handed every message of
\* the agent group of such a message to the Agent Invoker.
C17_KnowledgeSyncSwallowed ==
    [][\A t \in Tasks :
          LET mid == Current(State, t)
              acted == tasks[t].state = "running" /\ tasks'[t].log # tasks[t].log
          IN /\ (/\ acted
                 /\ tasks[t].at = "context"
                 /\ Entry("context_failed", mid) \in Range(tasks'[t].log))
                    => /\ tasks'[t].state = "running"
                       /\ tasks'[t].at = "save"
                       /\ Last(tasks'[t].log) = Entry("save", mid)
             /\ (/\ acted
                 /\ tasks[t].at = "save"
                 /\ tasks[t].webhook_url # ""
                 /\ \/ Did(t, "context_failed", mid)
                    \/ Entry("save_failed", mid) \in Range(tasks'[t].log))
                    => /\ tasks'[t].state = "running"
                       /\ tasks'[t].at = "webhook"
                       /\ Last(tasks'[t].log) = Entry("webhook", mid)
             /\ tasks'[t].state = "done" =>
                    \A m1 \in Range(tasks[t].batch) :
                        (\/ Entry("context_failed", m1) \in Range(tasks'[t].log)
                         \/ Entry("save_failed", m1) \in Range(tasks'[t].log))
                            => \A m2 \in Range(GroupOf(t, m1)) :
                                   Entry("invoke", m2) \in Range(tasks'[t].log)]_vars

\* a flush has ended in which both Knowledge Sync calls failed for a message,
\* its webhook was sent, and the message after it was processed
C17_Witness ==
    \E t \in Tasks : \E m1, m2 \in Range(tasks[t].batch) :
        /\ tasks[t].state = "done"
        /\ m1 < m2
        /\ msgs[m1].agent_id = msgs[m2].agent_id
        /\ Did(t, "context_failed", m1)
        /\ Did(t, "save_failed", m1)
        /\ Did(t, "webhook", m1)
        /\ Did(t, "save", m2)

\* C18: a failure of the Webhook Sender for a message is swallowed: the flush
\* moves on from the message without an error, and when it has ended it has
\* handed every message of the agent group to the Agent Invoker and the group
\* of its key is removed from the store.
C18_WebhookFailureSwallowed ==
    \A t \in Tasks : \A mid \in Range(tasks[t].batch) :
        Did(t, "webhook_failed", mid) =>
            /\ ~Did(t, "error", mid)
            /\ tasks[t].state = "running" => Current(State, t) # mid
            /\ tasks[t].state = "done" =>
                  /\ \A m2 \in Range(GroupOf(t, mid)) : Did(t, "invoke", m2)
                  /\ \A k \in DOMAIN debounce_storage : debounce_storage[k].task # t
                  /\ LastOfKey(t) => tasks[t].key \notin DOMAIN debounce_storage

\* a flush has ended in which the webhook failed for a message and the
\* message after it was processed, and its key is gone from the store
C18_Witness ==
    \E t \in Tasks : \E m1, m2 \in Range(tasks[t].batch) :
        /\ tasks[t].state = "done"
        /\ m1 < m2
        /\ msgs[m1].agent_id = msgs[m2].agent_id
        /\ Did(t, "webhook_failed", m1)
        /\ Did(t, "webhook", m2)
        /\ tasks[t].key \notin DOMAIN debounce_storage

\* C19: when the dispatch of a key has ended and no submit for the key has
\* armed a flush since, the key is absent from the store; the store never
\* keeps a group whose flush task has ended; so when no flush task is sleeping
\* or dispatching the store is empty.
C19_StoreEmptiedByFlush ==
    /\ \A t \in Tasks :
          (tasks[t].state = "done" /\ LastOfKey(t))
              => tasks[t].key \notin DOMAIN debounce_storage
    /\ \A k \in DOMAIN debounce_storage : Live(debounce_storage[k].task)
    /\ (\A t \in Tasks : ~Live(t)) => DOMAIN debounce_storage = {}

\* two flushes have ended, one of them with a failure of one of its messages,
\* no flush is pending and the store is empty
C19_Witness ==
    /\ DOMAIN debounce_storage = {}
    /\ \A t \in Tasks : ~Live(t)
    /\ \E t, u \in Tasks :
          /\ t # u
          /\ tasks[t].state = "done"
          /\ tasks[u].state = "done"
          /\ \E mid \in Range(tasks[t].batch) : Did(t, "error", mid)
          /\ \E mid \in Range(tasks[u].batch) : Did(u, "save", mid)

\* C20: a group is never flushed while empty: after every step, every group
\* in the store holds at least one message and records a flush task, and a
\* flush that wakes and finds its group hands a batch with at least one
\* message to the dispatcher.
C20_NeverFlushedEmpty ==
    [][/\ \A k \in DOMAIN debounce_storage' :
             /\ debounce_storage'[k].messages # <<>>
             /\ debounce_storage'[k].task \in 1..Len(tasks')
             /\ tasks'[debounce_storage'[k].task].key = k
       /\ \A t \in Tasks :
             (/\ tasks[t].state = "sleeping"
              /\ tasks'[t].firedAt # -1
              /\ tasks[t].key \in DOMAIN debounce_storage)
                 => tasks'[t].batch # <<>>]_vars

\* after a request without messages, one group is waiting in the store and a
\* flush has handed a batch of two messages to the dispatcher
C20_Witness ==
    /\ response # None
    /\ response[1].received = 0
    /\ \E k \in DOMAIN debounce_storage :
          tasks[debounce_storage[k].task].state = "sleeping"
    /\ \E t \in Tasks : Fired(t) /\ Len(tasks[t].batch) = 2

\* the messages a step has accepted for the key, in the order of the request
NewOfKey(k) ==
    SelectSeq([j \in 1..(Len(msgs') - Len(msgs)) |-> Len(msgs) + j],
              LAMBDA x : msgs'[x].key = k)

\* C22: submits for one key are serialized.  A submit for a key that has a
\* group leaves one group for the key, which holds the messages it held
\* followed by the messages of the request, and exactly one live flush task
\* for the key, the one the group records.
C22_SubmitsSerialized ==
    [][\A k \in DOMAIN debounce_storage :
          NewOfKey(k) # <<>> =>
              /\ k \in DOMAIN debounce_storage'
              /\ debounce_storage'[k].messages
                     = debounce_storage[k].messages \o NewOfKey(k)
              /\ {t \in 1..Len(tasks') :
                      tasks'[t].key = k /\ tasks'[t].state \in {"sleeping", "running"}}
                     = {debounce_storage'[k].task}]_vars

\* two requests for one key were handled at the same time: the flush of the
\* first is cancelled, the flush of the second is live, and the group holds
\* the messages of both
C22_Witness ==
    \E t, u \in Tasks :
        /\ t < u
        /\ tasks[t].key = tasks[u].key
        /\ tasks[t].state = "cancelled"
        /\ ~Fired(t)
        /\ tasks[u].state = "sleeping"
        /\ tasks[t].deadline - tasks[t].delay = tasks[u].deadline - tasks[u].delay
        /\ tasks[u].key \in DOMAIN debounce_storage
        /\ debounce_storage[tasks[u].key].task = u
        /\ Len(debounce_storage[tasks[u].key].messages) = 3

\* C24: a message is immutable once received: the fields of a message are the
\* fields it was submitted with.
C24_MessageImmutable ==
    \A mid \in Mids : msgs[mid].session_id = msgs[mid].submitted_session

C26_KeysIndependent ==
    [][/\ Len(msgs') > Len(msgs) =>
             \A k \in DOMAIN debounce_storage :
                 NewOfKey(k) = <<>> =>
                     /\ k \in DOMAIN debounce_storage'
                     /\ debounce_storage'[k] = debounce_storage[k]
                     /\ tasks'[debounce_storage[k].task] = tasks[debounce_storage[k].task]
       /\ \A t \in Tasks :
             (Len(msgs') = Len(msgs) /\ tasks'[t] # tasks[t]) =>
                 /\ \A k \in DOMAIN debounce_storage \ {tasks[t].key} :
                       /\ k \in DOMAIN debounce_storage'
                       /\ debounce_storage'[k] = debounce_storage[k]
                       /\ tasks'[debounce_storage[k].task] = tasks[debounce_storage[k].task]
                 /\ \A mid \in Range(tasks'[t].batch) : msgs[mid].key = tasks[t].key]_vars

\* the flush of one key has ended while the group of another key, submitted
\* before that flush woke, is still waiting for its own
C26_Witness ==
    \E t \in Tasks : \E k \in DOMAIN debounce_storage :
        /\ tasks[t].state = "done"
        /\ \E mid \in Range(tasks[t].batch) : Did(t, "save", mid)
        /\ k # tasks[t].key
        /\ tasks[debounce_storage[k].task].state = "sleeping"
        /\ \A mid \in Range(debounce_storage[k].messages) : msgs[mid].at <= tasks[t].firedAt
        /\ \E mid \in Range(tasks[t].batch) :
              \E m2 \in Range(debounce_storage[k].messages) : mid < m2

\* the number of messages pending for a key
Pending(store, k) == IF k \in DOMAIN store THEN Len(store[k].messages) ELSE 0

\* C23: submit is not idempotent.  On every submit the group of a key grows by
\* exactly one entry per submitted message of that key, whether or not the
\* message id of a submitted message is that of a message already pending;
\* and the flush that owns a group dispatches the group as it is stored, every
\* copy included.
C23_SubmitNotIdempotent ==
    [][/\ \A k \in DOMAIN debounce_storage' :
             Pending(debounce_storage', k)
                 = Pending(debounce_storage, k) + Len(NewOfKey(k))
                \/ (NewOfKey(k) = <<>> /\ Pending(debounce_storage', k) <= Pending(debounce_storage, k))
       /\ \A k \in DOMAIN debounce_storage' :
             tasks'[debounce_storage'[k].task].state = "running" =>
                 tasks'[debounce_storage'[k].task].batch = debounce_storage'[k].messages]_vars

\* a message was submitted with the message id of a message then pending for
\* its key, and one flush handed both to the Agent Invoker
C23_Witness ==
    \E t \in Tasks : \E m1, m2 \in Mids :
        /\ m1 < m2
        /\ msgs[m1].at < msgs[m2].at
        /\ msgs[m1].key = msgs[m2].key
        /\ msgs[m1].message_id # None
        /\ msgs[m1].message_id = msgs[m2].message_id
        /\ Did(t, "invoke", m1)
        /\ Did(t, "invoke", m2)

\* C27: a POST /messages whose X-API-Key header is missing or wrong is
\* answered with status 401 and leaves the Debounce Store as it was: no group
\* is created or extended, no message is kept, and no flush task is armed or
\* cancelled.
C27_BadKeyRejected ==
    [][(/\ <<x_api_key, response>>' # <<x_api_key, response>>
        /\ (x_api_key' = None \/ x_api_key'[1] # API_KEY))
          => /\ response'[1].status = 401
             /\ UNCHANGED <<debounce_storage, msgs, tasks>>]_vars

\* a request with a wrong key was rejected while a group was pending under a
\* sleeping flush
C27_Witness ==
    /\ x_api_key = Some("wrong")
    /\ response = Some(Unauthorized)
    /\ \E k \in DOMAIN debounce_storage :
          /\ debounce_storage[k].messages # <<>>
          /\ tasks[debounce_storage[k].task].state = "sleeping"

\* the step handles a request to /agents of this method
Handled(method) ==
    /\ agent_response' # agent_response
    /\ agent_response'[1].request.method = method

\* the id in the path of the request the step handles, and its answer
PathId == agent_response'[1].request.agent_id
Status == agent_response'[1].status
Body == agent_response'[1].body

\* C28: after a DELETE of an agent of the registry has succeeded, the agent
\* is not in the registry, and an id that is not in the registry stays out of
\* it on every step but a POST /agents that succeeds and returns it; a GET of
\* an id that is not in the registry is answered 404.  A DELETE of an id that
\* is not in the registry is answered 404 and leaves the registry as it was.
C28_DeletedIsGone ==
    [][/\ Handled("DELETE") =>
             /\ Status = 404 <=> PathId \notin DOMAIN agents_storage
             /\ Status = 404 => agents_storage' = agents_storage
             /\ Status # 404 => /\ Status = 200
                                /\ PathId \notin DOMAIN agents_storage'
       /\ \A id \in DOMAIN agents_storage' \ DOMAIN agents_storage :
             /\ Handled("POST")
             /\ Status = 200
             /\ Body.id = id
       /\ Handled("GET") =>
             (Status = 404 <=> PathId \notin DOMAIN agents_storage)]_vars

\* the default agent was deleted, another registry change followed, and a GET
\* of the default agent was answered 404
C28_Witness ==
    /\ agent_response = NotFound("GET", DefaultAgentId, None)
    /\ DefaultAgentId \notin DOMAIN agents_storage
    /\ agents_storage # <<>>
    /\ agentOps >= 2

\* C29: create/get round trip.  A POST /agents that succeeds returns the id
\* under which the agent is stored; from then on, as long as no PUT or DELETE
\* of that id has succeeded, the agent stored under the id has that id and the
\* submitted name, and a GET of the id is answered 200 with that id and name.
C29_CreateGetRoundTrip ==
    [][/\ (Handled("POST") /\ Status = 200) =>
             /\ Body.id \in DOMAIN created'
             /\ created'[Body.id] = agent_response'[1].request.agent[1]
       /\ \A X \in DOMAIN created :
             /\ X \in DOMAIN agents_storage
             /\ agents_storage[X].id = X
             /\ agents_storage[X].name = created[X].name
       /\ (Handled("GET") /\ PathId \in DOMAIN created) =>
             /\ Status = 200
             /\ Body.id = PathId
             /\ Body.name = created[PathId].name]_vars

\* an agent was created without an id, another agent was changed, and a GET
\* of the returned id was answered
C29_Witness ==
    /\ agent_response # None
    /\ agent_response[1].request.method = "GET"
    /\ agent_response[1].status = 200
    /\ agent_response[1].request.agent_id \in DOMAIN created
    /\ created[agent_response[1].request.agent_id].id = None
    /\ agent_response[1].body.name = "hooked"
    /\ agentOps >= 2

C21_PendingObservableAtShutdown ==
    shutdown # None =>
        \A mid \in Mids : InStore(mid) => mid \in Range(shutdown[1])

\* the AgentConfig in the body of the request the step handles
Submitted == agent_response'[1].request.agent[1]

\* C31: a POST /agents whose id is that of an agent of the registry is
\* answered 400 and leaves the registry, the stored agent included, as it was;
\* no other POST /agents is answered 400; and every agent of the registry is
\* stored under its own id, so no two agents of the registry have the same id.
C31_DuplicateCreateRejected ==
    [][/\ Handled("POST") =>
             /\ Status = 400 <=>
                   (Truthy(Submitted.id) /\ Submitted.id[1] \in DOMAIN agents_storage)
             /\ Status = 400 => agents_storage' = agents_storage
             /\ Status # 400 => Status = 200
       /\ \A a \in DOMAIN agents_storage : agents_storage[a].id = a
       /\ \A a \in DOMAIN agents_storage' : agents_storage'[a].id = a]_vars

\* after another change of the registry, a POST with the id of the default
\* agent and other fields was answered 400, and the default agent is as it
\* was created
C31_Witness ==
    /\ agent_response # None
    /\ agent_response[1].request.method = "POST"
    /\ agent_response[1].status = 400
    /\ agent_response[1].request.agent[1].id = Some(DefaultAgentId)
    /\ agent_response[1].request.agent[1].name = "hooked"
    /\ agentOps >= 1
    /\ agents_storage[DefaultAgentId] = default_agent

\* what the task adds to its log in the step
NewEntries(t) == SubSeq(tasks'[t].log, Len(tasks[t].log) + 1, Len(tasks'[t].log))

\* the task enters an agent group in the step: process_agent_messages has
\* found the agent (main.py:185-193)
Enters(t) ==
    /\ tasks'[t].state = "running"
    /\ tasks[t].state = "sleeping" \/ tasks'[t].g # tasks[t].g

\* C32: the registry is consulted at flush time.  A submit is accepted and
\* its messages are stored whatever the registry holds, and it leaves the
\* registry alone.  A flush that wakes when no agent of its batch is in the
\* registry ends at once, with the group of its key removed from the store and
\* no call made; a flush makes a call for a message only with an agent it
\* found in the registry for the agent id of the message.  The agent a flush
\* invokes for an agent group has the configuration, and the flush the
\* webhook_url, that the registry holds when the flush enters the group.
C32_RegistryConsultedAtFlush ==
    [][/\ Len(msgs') > Len(msgs) =>
             /\ response'[1].status = 200
             /\ agents_storage' = agents_storage
             /\ \A mid \in (Len(msgs) + 1)..Len(msgs') :
                   /\ msgs'[mid].key \in DOMAIN debounce_storage'
                   /\ mid \in Range(debounce_storage'[msgs'[mid].key].messages)
       /\ \A t \in Tasks :
             /\ (/\ tasks[t].state = "sleeping"
                 /\ tasks'[t].firedAt # -1
                 /\ \A mid \in Range(tasks'[t].batch) :
                       msgs[mid].agent_id \notin DOMAIN agents_storage) =>
                   /\ tasks'[t].state = "done"
                   /\ tasks[t].key \notin DOMAIN debounce_storage'
                   /\ \A e \in Range(tasks'[t].log) : e.kind = "not_found"
             /\ \A e \in Range(NewEntries(t)) :
                   e.kind \in {"context", "invoke", "save", "webhook"} =>
                       LET agent == IF e.kind = "context" THEN tasks'[t].agent
                                    ELSE tasks[t].agent
                       IN /\ agent # None
                          /\ agent[1].id = msgs[e.mid].agent_id
             /\ Enters(t) =>
                   LET group == agent_groups(msgs, tasks'[t].batch)[tasks'[t].g]
                   IN /\ group.agent_id \in DOMAIN agents_storage
                      /\ tasks'[t].agent # None
                      /\ \A f \in {"id", "name", "description", "instructions", "model",
                                   "temperature", "max_tokens", "skills", "webhook_url"} :
                            tasks'[t].agent[1][f] = agents_storage[group.agent_id][f]
                      /\ tasks'[t].webhook_url = agents_storage[group.agent_id].webhook_url
             /\ (tasks[t].state = "running" /\ tasks'[t].state = "running"
                   /\ tasks'[t].g = tasks[t].g) =>
                   tasks'[t].agent = tasks[t].agent]_vars

\* after the last submit the default agent was updated and then deleted: one
\* flush entered its group in between and has invoked the agent with the
\* updated configuration; the flush of another key woke after the deletion
\* and ended with its group removed and no call made
C32_Witness ==
    \E t, u \in Tasks :
        /\ tasks[t].state = "running"
        /\ tasks[t].agent # None
        /\ tasks[t].agent[1].id = DefaultAgentId
        /\ tasks[t].agent[1].instructions = Hooked.instructions
        /\ \E mid \in Range(tasks[t].batch) : Did(t, "invoke", mid)
        /\ DefaultAgentId \notin DOMAIN agents_storage
        /\ tasks[u].state = "done"
        /\ tasks[u].batch # <<>>
        /\ \A mid \in Range(tasks[u].batch) : msgs[mid].agent_id = DefaultAgentId
        /\ tasks[u].log = <<Entry("not_found", tasks[u].batch[1])>>
        /\ tasks[u].key \notin DOMAIN debounce_storage

\* the places of the log of the task where it made this call for the message
Calls(t, kind, mid) == {k \in 1..Len(tasks[t].log) : tasks[t].log[k] = Entry(kind, mid)}

\* save_to_cognee returns to the task in the step
SaveReturns(t) ==
    /\ tasks[t].state = "running"
    /\ tasks[t].at = "save"
    /\ tasks'[t].state # "cancelled"
    /\ tasks'[t].at # "save"

\* C33: within one flush the Webhook Sender is called at most once for a
\* message, after the Knowledge Sync call for that message.  It is called
\* when save_to_cognee has returned for the message, if and only if the
\* webhook_url of the agent configuration the flush holds is not empty then;
\* that is the webhook_url the registry has at that moment, as long as the
\* agent has not been deleted since the flush entered its group.
C33_WebhookPerMessage ==
    [][\A t \in Tasks :
          /\ \A mid \in Range(tasks[t].batch) :
                /\ Cardinality(Calls(t, "webhook", mid)) <= 1
                /\ \A w \in Calls(t, "webhook", mid) :
                      \E s \in Calls(t, "save", mid) : s < w
          /\ SaveReturns(t) =>
                /\ tasks[t].webhook_url # ""
                      <=> \E e \in Range(NewEntries(t)) : e.kind = "webhook"
                /\ \A e \in Range(NewEntries(t)) :
                      e.kind = "webhook" => e.mid = Current(State, t)
          /\ ~SaveReturns(t) =>
                \A e \in Range(NewEntries(t)) : e.kind # "webhook"
          /\ tasks[t].state = "running" =>
                \A a \in DOMAIN agents_storage :
                    agents_storage[a].created_at = tasks[t].agent_config =>
                        tasks[t].webhook_url = agents_storage[a].webhook_url]_vars

\* one flush of two messages for an agent with a webhook_url has called the
\* Webhook Sender for the first after its save and awaits the Webhook Sender
\* for the second; the agent got its webhook_url after the messages were
\* received
C33_Witness ==
    \E t \in Tasks :
        /\ tasks[t].state = "running"
        /\ tasks[t].at = "webhook"
        /\ Len(tasks[t].batch) = 2
        /\ msgs[tasks[t].batch[1]].agent_id = DefaultAgentId
        /\ msgs[tasks[t].batch[2]].agent_id = DefaultAgentId
        /\ Cardinality(Calls(t, "webhook", tasks[t].batch[1])) = 1
        /\ Cardinality(Calls(t, "webhook", tasks[t].batch[2])) = 1
        /\ Len(tasks[t].log) = 8

\* C34: Knowledge Sync and the Agent Invoker are called for a message when
\* its session id is not empty: the one it was submitted with, or one that a
\* dispatch generated for it.  Two messages submitted without a session id
\* never have the same generated session id, and a session id a message has
\* is never replaced, so a message that is dispatched again is dispatched
\* with the session id of its first dispatch.
C34_SessionIdAtDispatch ==
    [][/\ \A t \in Tasks : \A e \in Range(NewEntries(t)) :
             e.kind \in {"context", "invoke", "save"} =>
                 /\ Truthy(msgs'[e.mid].session_id)
                 /\ Truthy(msgs[e.mid].submitted_session) =>
                       msgs'[e.mid].session_id = msgs[e.mid].submitted_session
       /\ \A mid \in Mids :
             Truthy(msgs[mid].session_id) => msgs'[mid].session_id = msgs[mid].session_id
       /\ \A m1, m2 \in Mids :
             (/\ m1 # m2
              /\ ~Truthy(msgs[m1].submitted_session)
              /\ ~Truthy(msgs[m2].submitted_session)
              /\ Truthy(msgs[m1].session_id)) =>
                 msgs[m1].session_id # msgs[m2].session_id]_vars

\* two messages of one key, one submitted without a session id and one with
\* an empty one: a flush invoked the agent for the first and was cancelled by
\* the submit of the second, and the next flush has invoked the agent for
\* both, for the first with the session id the first flush generated
C34_Witness ==
    \E t, u \in Tasks : \E m1, m2 \in Mids :
        /\ t < u
        /\ m1 < m2
        /\ tasks[t].state = "cancelled"
        /\ Did(t, "invoke", m1)
        /\ Did(u, "invoke", m1)
        /\ Did(u, "invoke", m2)
        /\ msgs[m1].submitted_session = None
        /\ msgs[m2].submitted_session = Some("")
        /\ msgs[m1].session_id = Some(uuid4(<<t, m1>>))
        /\ msgs[m2].session_id = Some(uuid4(<<u, m2>>))

====
